---- MODULE Spec2Model ----
(***************************************************************************)
(* Verification model of hjk0314/mayaRig: general.py (rigging helpers,     *)
(* AlignObjects, AlignCurvePoints, Controllers) and quickRig.py (Car,      *)
(* Wheel).  Python values, the parts of the Maya scene the code reads and  *)
(* writes, and the operations of the two files are modelled; numbers are   *)
(* exact integers or rationals (num/den), so the floating-point rounding   *)
(* of the host is not part of the model except where the code rounds       *)
(* explicitly (round(..., 4)).                                             *)
(***************************************************************************)
EXTENDS Integers, Sequences, FiniteSets, TLC

VARIABLES
    flArgs,     \* getFlattenList: the argument tuple (*args)
    flResult,   \* getFlattenList: the returned list
    flDone,     \* getFlattenList: TRUE once the call has returned
    ipArgs,     \* getIntersectionPoint: [N, P, D, L], the four argument lists
    ipResult,   \* getIntersectionPoint: the returned point
    ipDone,     \* getIntersectionPoint: TRUE once the call has returned
    scParent,   \* scene: each object's parent (NoParent: the world)
    scLocal,    \* scene: each object's translation under its parent
    scSel,      \* scene: the selection list, pm.ls(sl=True)
    scFaces,    \* scene: the number of polygon faces made by polyCreateFacet
    scJoints,   \* scene: the joint chains made by createPolevectorJoint
    scCurves,   \* scene: the curves, each the sequence of its CV positions
    scCall,     \* the last call: operation, node list, positions before it
    scOut,      \* the last call's warning, return value and exception
    rtIn,       \* a geometric routine and the arguments the caller holds for it
    rtArgs,     \* the caller's argument objects as the last call left them
    rtRet,      \* what the last call of the routine returned
    rtSelf,     \* the attributes of the AlignObjects / AlignCurvePoints instance
    rtFaces,    \* the polygon faces in the scene
    rtCalls,    \* how often the routine has been called
    ctArgs,     \* createControllers: the argument tuple (*args)
    ctCurves,   \* createControllers: the curves in the scene
    ctResult,   \* createControllers: the returned list
    ctDone,     \* createControllers: TRUE once the call has returned
    wpArg,      \* Wheel: the argument of Wheel(arg)
    wpSel,      \* Wheel: the scene's selection list
    wpResult,   \* Wheel: what checkParam returned (self.sel)
    wpDone,     \* Wheel: TRUE once checkParam has returned
    carPos,     \* Car: self.jntNameAndPos, the stored position of each joint
    carDag,     \* Car: parent and local translation of each joint in the scene
    carExists,  \* Car: TRUE while the car joints are in the scene
    carCall,    \* Car: the last operation, with the positions it started from
    carMoves,   \* Car: how many joints the user has moved by hand
    whCtrl,     \* Wheel: the controller's Radius and AutoRoll
    whOffset,   \* Wheel: the offset group's translate, scaleY and PrevPos
    whLoc,      \* Wheel: the locator's rotateX
    whPrev,     \* Wheel: the translate of the "prev" group
    whHist      \* Wheel: the evaluations so far and what the last one saw

flVars == <<flArgs, flResult, flDone>>
ipVars == <<ipArgs, ipResult, ipDone>>
scNodes == <<scParent, scLocal, scSel, scFaces, scJoints, scCurves>>
scVars == <<scParent, scLocal, scSel, scFaces, scJoints, scCurves, scCall, scOut>>
rtVars == <<rtIn, rtArgs, rtRet, rtSelf, rtFaces, rtCalls>>
ctVars == <<ctArgs, ctCurves, ctResult, ctDone>>
wpVars == <<wpArg, wpSel, wpResult, wpDone>>
carVars == <<carPos, carDag, carExists, carCall, carMoves>>
whVars == <<whCtrl, whOffset, whLoc, whPrev, whHist>>

vars == <<flArgs, flResult, flDone, ipArgs, ipResult, ipDone,
          scParent, scLocal, scSel, scFaces, scJoints, scCurves, scCall, scOut,
          rtIn, rtArgs, rtRet, rtSelf, rtFaces, rtCalls,
          ctArgs, ctCurves, ctResult, ctDone,
          wpArg, wpSel, wpResult, wpDone,
          carPos, carDag, carExists, carCall, carMoves,
          whCtrl, whOffset, whLoc, whPrev, whHist>>

-----------------------------------------------------------------------------
(* Python values: a str, another non-iterable scalar, or a list/tuple.     *)

PyStr(s)   == [t |-> "str",   v |-> s, items |-> <<>>]
PyInt(s)   == [t |-> "int",   v |-> s, items |-> <<>>]
PyList(xs) == [t |-> "list",  v |-> "", items |-> xs]
PyTuple(xs) == [t |-> "tuple", v |-> "", items |-> xs]

\* isinstance(x, str)
IsStr(x) == x.t = "str"

\* isinstance(x, Iterable): a str is Iterable too, a number is not
IsIterable(x) == x.t \in {"str", "list", "tuple"}

-----------------------------------------------------------------------------
(* Exact arithmetic: a rational is [n |-> numerator, d |-> denominator > 0] *)
(* in lowest terms; a vector is a triple of rationals.                     *)

Abs(i) == IF i < 0 THEN -i ELSE i

RECURSIVE GCD(_, _)
GCD(a, b) == IF b = 0 THEN a ELSE GCD(b, a % b)

\* a float that is not finite (0/0, x/0): it spreads through every operation
RNaN == [n |-> 0, d |-> 0]

Rat(n, d) ==
    IF d = 0 THEN RNaN
    ELSE LET g == GCD(Abs(n), Abs(d))
             s == IF d < 0 THEN -1 ELSE 1
         IN  [n |-> (s * n) \div g, d |-> (s * d) \div g]

RInt(i) == [n |-> i, d |-> 1]
RAdd(a, b) == Rat(a.n * b.d + b.n * a.d, a.d * b.d)
RSub(a, b) == Rat(a.n * b.d - b.n * a.d, a.d * b.d)
RMul(a, b) == Rat(a.n * b.n, a.d * b.d)
RDiv(a, b) == Rat(a.n * b.d, a.d * b.n)
RNeg(a)    == [n |-> -a.n, d |-> a.d]
RLeq(a, b) == a.n * b.d <= b.n * a.d
RZero == RInt(0)

Vec(x, y, z) == <<RInt(x), RInt(y), RInt(z)>>
VAdd(u, v) == <<RAdd(u[1], v[1]), RAdd(u[2], v[2]), RAdd(u[3], v[3])>>
VSub(u, v) == <<RSub(u[1], v[1]), RSub(u[2], v[2]), RSub(u[3], v[3])>>
VScale(k, v) == <<RMul(k, v[1]), RMul(k, v[2]), RMul(k, v[3])>>
Dot(u, v) == RAdd(RAdd(RMul(u[1], v[1]), RMul(u[2], v[2])), RMul(u[3], v[3]))
Cross(u, v) ==
    << RSub(RMul(u[2], v[3]), RMul(u[3], v[2])),
       RSub(RMul(u[3], v[1]), RMul(u[1], v[3])),
       RSub(RMul(u[1], v[2]), RMul(u[2], v[1])) >>
VZero == Vec(0, 0, 0)

-----------------------------------------------------------------------------
(* general.AlignObjects.getIntersectionPoint                               *)

\* what numpy's division by zero leaves in the result: no finite number
NonFinite == <<RNaN, RNaN, RNaN>>

\* a variant with the difference of delta1 taken the other way round
getIntersectionPointSwapped(normalOfPlane, pointOnPlane, directionOfLine, pointOnLine) ==
    LET delta1 == Dot(normalOfPlane, VSub(pointOnLine, pointOnPlane))
        delta2 == Dot(normalOfPlane, directionOfLine)
    IN  VAdd(pointOnLine, VScale(RDiv(delta1, delta2), directionOfLine))

getIntersectionPoint(normalOfPlane, pointOnPlane, directionOfLine, pointOnLine) ==
    LET delta1 == Dot(normalOfPlane, VSub(pointOnPlane, pointOnLine))
        delta2 == Dot(normalOfPlane, directionOfLine)
        lean == RDiv(delta1, delta2)
    IN  VAdd(pointOnLine, VScale(lean, directionOfLine))

\* the largest coordinate, in absolute value, of the normals and directions
MaxCoord == 1

VecsUpTo(m) == {Vec(x, y, z) : x \in -m..m, y \in -m..m, z \in -m..m}

PlanePoints == {Vec(0, 0, 0), Vec(1, 2, 3)}
LinePoints == {Vec(0, 0, 0), Vec(2, -1, 4), Vec(-3, 5, 1)}

-----------------------------------------------------------------------------
(* The Maya scene as general.py uses it: transforms with a parent and a    *)
(* translation (rotations and scales are left at identity), a selection    *)
(* list, polygon faces, joints and curves.                                 *)

MaxObjs == 4
Objs == 1..MaxObjs
NoParent == 0

ObjRef(i)    == [k |-> "obj",   c |-> 0, i |-> i]
CvRef(c, i)  == [k |-> "cv",    c |-> c, i |-> i]
MeshRef(i)   == [k |-> "mesh",  c |-> 0, i |-> i]
CurveRef(c)  == [k |-> "curve", c |-> c, i |-> 0]
JointRef(i)  == [k |-> "joint", c |-> 0, i |-> i]

RECURSIVE WorldPosition(_, _)
\* pm.xform(o, q=1, t=1, ws=1)
WorldPosition(dag, o) ==
    IF dag.parent[o] = NoParent THEN dag.local[o]
    ELSE VAdd(dag.local[o], WorldPosition(dag, dag.parent[o]))

\* pm.parent(child, p) and pm.parent(child, w=True): the world position stays
pmParent(dag, child, p) ==
    LET w  == WorldPosition(dag, child)
        pw == IF p = NoParent THEN VZero ELSE WorldPosition(dag, p)
    IN  [parent |-> [dag.parent EXCEPT ![child] = p],
         local  |-> [dag.local EXCEPT ![child] = VSub(w, pw)]]

\* pm.move(o, pos): an absolute move in world space
pmMove(dag, o, pos) ==
    LET pw == IF dag.parent[o] = NoParent THEN VZero
              ELSE WorldPosition(dag, dag.parent[o])
    IN  [dag EXCEPT !.local[o] = VSub(pos, pw)]

-----------------------------------------------------------------------------
(* general.AlignObjects                                                    *)

\* a variant that leaves every child under its parent
unParentSkipped(dag, myParents, children) == dag

RECURSIVE unParent(_, _, _)
unParent(dag, myParents, children) ==
    IF children = <<>> THEN dag
    ELSE LET child == Head(children) IN
         unParent(IF myParents[child] = NoParent THEN dag
                  ELSE pmParent(dag, child, NoParent),
                  myParents, Tail(children))

RECURSIVE reParent(_, _, _)
reParent(dag, myParents, children) ==
    IF children = <<>> THEN dag
    ELSE LET child == Head(children) IN
         reParent(IF myParents[child] = NoParent THEN dag
                  ELSE pmParent(dag, child, myParents[child]),
                  myParents, Tail(children))

\* a variant that deletes the face once its normal is read
polyCreateFacetThenDelete(faces) == faces

\* pm.polyCreateFacet(p=threePointsPosition): one more polygon in the scene,
\* which nothing deletes
polyCreateFacet(faces) == faces + 1

\* The normal of the face through the three points, as polyInfo reports it.
\* The host scales it to unit length; getIntersectionPoint with the normal as
\* plane normal and as direction gives the same point for every scale of it
\* (ScaleOfNormalIsIrrelevant), so the cross product stands for it.
getFaceNormalVector(threePointsPosition) ==
    Cross(VSub(threePointsPosition[2], threePointsPosition[1]),
          VSub(threePointsPosition[3], threePointsPosition[1]))

RECURSIVE moveSubDots(_, _, _, _)
\* for i in subDots: move i to the intersection of the plane and its normal
moveSubDots(dag, normalVector, planePoint, subDots) ==
    IF subDots = <<>> THEN dag
    ELSE LET i == Head(subDots)
             pointOfLine == WorldPosition(dag, i)
             intersectionPoint ==
                 getIntersectionPoint(normalVector, planePoint,
                                      normalVector, pointOfLine)
         IN  moveSubDots(pmMove(dag, i, intersectionPoint),
                         normalVector, planePoint, Tail(subDots))

\* a variant that also lets three objects through
alignObjectsRejectsBelowThree(sel) == Len(sel) < 3

\* if len(sel) < 4: warning, return
alignObjectsRejects(sel) == Len(sel) < 4

\* alignObjects past its guard, on the objects sel (their indices)
alignObjects(dag, sel) ==
    LET myParents == dag.parent
        d1 == unParent(dag, myParents, sel)
        mainDotsPosition == [k \in 1..3 |-> WorldPosition(d1, sel[k])]
        normalVector == getFaceNormalVector(mainDotsPosition)
        planePoint == mainDotsPosition[1]
        d2 == moveSubDots(d1, normalVector, planePoint, SubSeq(sel, 4, Len(sel)))
    IN  reParent(d2, myParents, sel)

-----------------------------------------------------------------------------
(* general.createPolevectorJoint                                           *)

\* if len(jnt) != 3: warning, return
createPolevectorJointRejects(jnt) == Len(jnt) # 3

\* The chain of two joints: made at the first and the third position, then
\* turned by the aim constraint and moved to the middle joint.  The start
\* joint's position and the bone's squared length are kept; the direction
\* the constraint gives the bone is not modelled.
createPolevectorJoint(jntPosition) ==
    LET bone == VSub(jntPosition[3], jntPosition[1])
    IN  [start |-> jntPosition[2], len2 |-> Dot(bone, bone)]

-----------------------------------------------------------------------------
(* general.AlignCurvePoints.  A CV position is in units of 0.0001, the     *)
(* grid round(..., 4) rounds to.                                           *)

Max3(a, b, c) == IF a >= b /\ a >= c THEN a ELSE IF b >= c THEN b ELSE c

\* an equation cx*x + cy*y + cz*z = r
Eq(cx, cy, cz, r) == [c |-> <<cx, cy, cz>>, r |-> r]

\* a variant that takes the axis of the smallest difference
calculateEquationMinAxis(firstPos, lastPos) ==
    LET x1 == firstPos[1]  y1 == firstPos[2]  z1 == firstPos[3]
        A == RSub(lastPos[1], x1)
        B == RSub(lastPos[2], y1)
        C == RSub(lastPos[3], z1)
        expr1 == Eq(B, RNeg(A), RZero, RSub(RMul(B, x1), RMul(A, y1)))
        expr2 == Eq(RZero, C, RNeg(B), RSub(RMul(C, y1), RMul(B, z1)))
        expr3 == Eq(RNeg(C), RZero, A, RSub(RMul(A, z1), RMul(C, x1)))
        absA == Abs(A.n) * B.d * C.d
        absB == Abs(B.n) * A.d * C.d
        absC == Abs(C.n) * A.d * B.d
        MIN == -Max3(-absA, -absB, -absC)
    IN  IF absA = MIN
          THEN [idx |-> 1, variables |-> <<2, 3>>, expr |-> <<expr1, expr3>>]
        ELSE IF absB = MIN
          THEN [idx |-> 2, variables |-> <<1, 3>>, expr |-> <<expr1, expr2>>]
        ELSE [idx |-> 3, variables |-> <<1, 2>>, expr |-> <<expr2, expr3>>]

\* The three equations of the line through the two points and the choice of
\* the axis with the largest difference (idx, the unknowns left, their two
\* equations); the axes are numbered 1, 2, 3 for x, y, z.
calculateEquation(firstPos, lastPos) ==
    LET x1 == firstPos[1]  y1 == firstPos[2]  z1 == firstPos[3]
        A == RSub(lastPos[1], x1)
        B == RSub(lastPos[2], y1)
        C == RSub(lastPos[3], z1)
        expr1 == Eq(B, RNeg(A), RZero, RSub(RMul(B, x1), RMul(A, y1)))
        expr2 == Eq(RZero, C, RNeg(B), RSub(RMul(C, y1), RMul(B, z1)))
        expr3 == Eq(RNeg(C), RZero, A, RSub(RMul(A, z1), RMul(C, x1)))
        absA == Abs(A.n) * B.d * C.d
        absB == Abs(B.n) * A.d * C.d
        absC == Abs(C.n) * A.d * B.d
        MAX == Max3(absA, absB, absC)
    IN  IF absA = MAX
          THEN [idx |-> 1, variables |-> <<2, 3>>, expr |-> <<expr1, expr3>>]
        ELSE IF absB = MAX
          THEN [idx |-> 2, variables |-> <<1, 3>>, expr |-> <<expr1, expr2>>]
        ELSE [idx |-> 3, variables |-> <<1, 2>>, expr |-> <<expr2, expr3>>]

\* expr.subs(highestGap, value)
Subs(e, var, value) ==
    [c |-> [e.c EXCEPT ![var] = RZero],
     r |-> RSub(e.r, RMul(e.c[var], value))]

\* sympy.solve of two linear equations in the two unknowns u and v:
\* the solution, or no solution (sympy's []) when they do not determine it
NoSolution == <<>>
Solve(fx, u, v) ==
    LET a == fx[1].c[u]  b == fx[1].c[v]  e == fx[1].r
        c == fx[2].c[u]  d == fx[2].c[v]  f == fx[2].r
        det == RSub(RMul(a, d), RMul(b, c))
    IN  IF det = RZero THEN NoSolution
        ELSE << RDiv(RSub(RMul(e, d), RMul(b, f)), det),
                RDiv(RSub(RMul(a, f), RMul(e, c)), det) >>

\* round(float(q), 4) on the grid: the nearest unit, a tie to the even one
Round(q) ==
    LET f == q.n \div q.d
        r == q.n - f * q.d
    IN  IF 2 * r < q.d THEN RInt(f)
        ELSE IF 2 * r > q.d THEN RInt(f + 1)
        ELSE IF f % 2 = 0 THEN RInt(f) ELSE RInt(f + 1)

\* position[highestGap] = value on sympy's [] raises TypeError
RaisesTypeError == <<"TypeError">>

getFinalPosition(pointPosition, solutions) ==
    LET idx == solutions.idx
        value == pointPosition[idx]
        fx == <<Subs(solutions.expr[1], idx, value),
                Subs(solutions.expr[2], idx, value)>>
        u == solutions.variables[1]
        v == solutions.variables[2]
        position == Solve(fx, u, v)
    IN  IF position = NoSolution THEN RaisesTypeError
        ELSE [i \in 1..3 |-> Round(IF i = idx THEN value
                                   ELSE IF i = u THEN position[1]
                                   ELSE position[2])]

\* copyCurve and the loop over the copy's CVs: the copy's CV positions
alignCurveStraight(curve, firstPos, lastPos) ==
    LET solutions == calculateEquation(firstPos, lastPos)
    IN  [i \in 1..Len(curve) |-> getFinalPosition(curve[i], solutions)]

-----------------------------------------------------------------------------
(* general.Controllers                                                     *)

\* the keys of self.controllerShapes, in the order of the dict
controllerShapes ==
    << "arrow", "arrow2", "arrow3", "arrow4", "arrow5", "arrow6",
       "car", "car2", "car3", "circle", "cone", "cone2", "cube", "cross",
       "cylinder", "foot", "foot2", "hat", "head", "hoof", "hoof2",
       "pipe", "pointer", "scapula", "sphere", "square" >>

allShapes == {controllerShapes[i] : i \in 1..Len(controllerShapes)}

\* pm.curve(p=position, d=1, n=shapeName): the new curve; the host numbers a
\* name that is taken
pmCurve(curves, shapeName) ==
    [shape |-> shapeName,
     copy |-> Cardinality({i \in 1..Len(curves) : curves[i].shape = shapeName})]

RECURSIVE createControllersLoop(_, _, _)
\* for shapeName in curvesToMake: curve = pm.curve(...); result.append(curve)
createControllersLoop(curvesToMake, curves, result) ==
    IF curvesToMake = <<>> THEN [curves |-> curves, result |-> result]
    ELSE LET curve == pmCurve(curves, Head(curvesToMake))
         IN  createControllersLoop(Tail(curvesToMake),
                                   Append(curves, curve), Append(result, curve))

\* curvesToMake = [i for i in args if i in allShapes], then the loop
createControllers(args, curves) ==
    LET curvesToMake == SelectSeq(args, LAMBDA i : i \in allShapes)
    IN  createControllersLoop(curvesToMake, curves, <<>>)

-----------------------------------------------------------------------------
(* quickRig.Wheel.checkParam.  An argument is None, a str, a PyNode, or a  *)
(* list or tuple of items; an item names a node and is a PyNode or a str.  *)

PyNone == [t |-> "None", items |-> <<>>]
Item(node, isPyNode) == [node |-> node, py |-> isPyNode]
Arg(t, items) == [t |-> t, items |-> items]

\* bool(obj)
Truthy(obj) ==
    CASE obj.t = "None" -> FALSE
      [] obj.t \in {"list", "tuple"} -> obj.items # <<>>
      [] OTHER -> TRUE

\* pm.PyNode(k) on every item that is no PyNode yet
AsPyNodes(items) == [j \in 1..Len(items) |-> Item(items[j].node, TRUE)]

checkParam(obj, selection) ==
    IF Truthy(obj) /\ obj.t = "list"
      THEN AsPyNodes(obj.items)
      ELSE selection

-----------------------------------------------------------------------------
(* quickRig.Car.  A name is the sequence of the words it is written with,  *)
(* so that `A in jntName` and side.split("To") are computed from the name. *)

\* the keys of self.jntNameAndPos, in the order of the dict
jntNames ==
    << <<"jnt_", "root">>,
       <<"jnt_", "body">>,
       <<"jnt_", "body", "End">>,
       <<"jnt_", "wheel", "Left", "Front">>,
       <<"jnt_", "wheel", "Left", "Front", "End">>,
       <<"jnt_", "wheel", "Right", "Front">>,
       <<"jnt_", "wheel", "Right", "Front", "End">>,
       <<"jnt_", "wheel", "Left", "Rear">>,
       <<"jnt_", "wheel", "Left", "Rear", "End">>,
       <<"jnt_", "wheel", "Right", "Rear">>,
       <<"jnt_", "wheel", "Right", "Rear", "End">> >>

\* the values of self.jntNameAndPos
jntNameAndPos ==
    << Vec(0, 15, 0), Vec(0, 45, 0), Vec(0, 145, 0),
       Vec(70, 30, 140), Vec(85, 30, 140),
       Vec(-70, 30, 140), Vec(-85, 30, 140),
       Vec(70, 30, -140), Vec(85, 30, -140),
       Vec(-70, 30, -140), Vec(-85, 30, -140) >>

Jnts == 1..Len(jntNames)
Jnt(name) == CHOOSE j \in Jnts : jntNames[j] = name

\* self.rootJoint and self.hierarchy["jnt_root"]
rootJoint == <<"jnt_", "root">>
hierarchy ==
    << << <<"jnt_", "body">>, <<"jnt_", "body", "End">> >>,
       << <<"jnt_", "wheel", "Left", "Front">>,
          <<"jnt_", "wheel", "Left", "Front", "End">> >>,
       << <<"jnt_", "wheel", "Right", "Front">>,
          <<"jnt_", "wheel", "Right", "Front", "End">> >>,
       << <<"jnt_", "wheel", "Left", "Rear">>,
          <<"jnt_", "wheel", "Left", "Rear", "End">> >>,
       << <<"jnt_", "wheel", "Right", "Rear">>,
          <<"jnt_", "wheel", "Right", "Rear", "End">> >> >>

\* pm.select(cl=True); pm.joint(p=pos, n=jnt) for every joint: all in world
pmJoints(pos) ==
    [parent |-> [j \in Jnts |-> NoParent], local |-> [j \in Jnts |-> pos[j]]]

RECURSIVE parentHierarchically(_, _)
\* each joint of the chain goes under the one before it
parentHierarchically(dag, children) ==
    IF Len(children) < 2 THEN dag
    ELSE parentHierarchically(
             pmParent(dag, Jnt(children[2]), Jnt(children[1])), Tail(children))

RECURSIVE setHierarchy(_, _)
\* for children in childList: parentHierarchically(children);
\* pm.makeIdentity(children, ...) moves nothing; pm.parent(children[0], parents)
setHierarchy(dag, childList) ==
    IF childList = <<>> THEN dag
    ELSE LET children == Head(childList)
             chained == parentHierarchically(dag, children)
         IN  setHierarchy(pmParent(chained, Jnt(children[1]), Jnt(rootJoint)),
                          Tail(childList))

\* Car.createJoints: cleanUp deletes the old joints, then the new ones are made
createJoints(pos) == setHierarchy(pmJoints(pos), hierarchy)

\* a variant that keeps the stored positions
updatePositionSkipped(pos, dag) == pos

\* Car.updatePosition
updatePosition(pos, dag) == [jnt \in Jnts |-> WorldPosition(dag, jnt)]

\* `word in jntName`
InName(word, jntName) == \E k \in 1..Len(jntName) : jntName[k] = word

\* the joints, in the order of the dict
jntKeys == [j \in Jnts |-> j]

\* (-1*x, y, z)
Mirror(p) == <<RNeg(p[1]), p[2], p[3]>>

\* Car.sameBothSide(side): the new self.jntNameAndPos and the new joints
sameBothSide(pos, dag, side) ==
    LET updated == updatePosition(pos, dag)
        A == side[1]
        B == side[3]
        aSide == SelectSeq(jntKeys, LAMBDA j : InName(A, jntNames[j]))
        bSide == SelectSeq(jntKeys, LAMBDA j : ~InName(A, jntNames[j])
                                                 /\ InName(B, jntNames[j]))
        opposite == [jnt \in Jnts |->
                        IF \E idx \in 1..Len(aSide) : bSide[idx] = jnt
                          THEN LET idx == CHOOSE i \in 1..Len(aSide) : bSide[i] = jnt
                               IN  Mirror(WorldPosition(dag, aSide[idx]))
                          ELSE updated[jnt]]
    IN  [pos |-> opposite, dag |-> createJoints(opposite)]

-----------------------------------------------------------------------------
(* quickRig.Wheel: the expression made by createExpression                 *)

\* the 3.141 of `float $C = 2 * 3.141 * $R`
Pi3141 == Rat(3141, 1000)

\* mag<<x, y, z>> of a vector whose length is a whole number
Mag(v) ==
    LET sq == RAdd(RAdd(RMul(v[1], v[1]), RMul(v[2], v[2])), RMul(v[3], v[3]))
    IN  RInt(CHOOSE r \in 0..sq.n : r * r = sq.n)

\* sin(deg_to_rad($O)) for the angles with a rational sine
SinDeg(O) ==
    CASE O = 0 -> RInt(0)
      [] O = 30 -> Rat(1, 2)
      [] O = 90 -> RInt(1)
      [] O = -90 -> RInt(-1)
      [] O = 180 -> RInt(0)

\* a variant of the expression without expression4
createExpressionWithoutPrevPos(ctrl, offset, loc, O) ==
    LET C == RMul(RMul(RInt(2), Pi3141), ctrl.Radius)
        D == Mag(VSub(offset.translate, offset.PrevPos))
    IN  [prev |-> offset.PrevPos,
         D |-> D,
         loc |-> RAdd(loc,
                      RDiv(RMul(RMul(RMul(RMul(RDiv(D, C), RInt(360)),
                                          RInt(ctrl.AutoRoll)), RInt(1)),
                                SinDeg(O)),
                           offset.scaleY)),
         offset |-> offset]

\* one evaluation of expr1 + expr2 + expr3 + expr4
createExpression(ctrl, offset, loc, O) ==
    LET R == ctrl.Radius
        A == RInt(ctrl.AutoRoll)
        J == loc
        C == RMul(RMul(RInt(2), Pi3141), R)
        S == offset.scaleY
        p == offset.PrevPos
        n == offset.translate
        D == Mag(VSub(n, p))
    IN  [prev |-> p,
         D |-> D,
         loc |-> RAdd(J, RDiv(RMul(RMul(RMul(RMul(RDiv(D, C), RInt(360)), A),
                                        RInt(1)),
                                   SinDeg(O)),
                              S)),
         offset |-> [offset EXCEPT !.PrevPos = n]]

-----------------------------------------------------------------------------
(* general.getFlattenList                                                  *)

RECURSIVE getFlattenList(_)
RECURSIVE FlattenItems(_)

\* the inner loop: for i in arg: result.extend(getFlattenList(i))
FlattenItems(items) ==
    IF items = <<>> THEN <<>>
    ELSE getFlattenList(<<Head(items)>>) \o FlattenItems(Tail(items))

\* a variant whose inner loop extends by the items themselves (no recursion)
RECURSIVE getFlattenListShallow(_)
getFlattenListShallow(args) ==
    IF args = <<>> THEN <<>>
    ELSE LET arg == Head(args) IN
         (IF ~IsStr(arg) /\ IsIterable(arg) THEN arg.items ELSE <<arg>>)
             \o getFlattenListShallow(Tail(args))

\* for arg in args: a non-str Iterable is flattened, anything else appended
getFlattenList(args) ==
    IF args = <<>> THEN <<>>
    ELSE LET arg == Head(args) IN
         (IF ~IsStr(arg) /\ IsIterable(arg)
            THEN FlattenItems(arg.items)
            ELSE <<arg>>)
             \o getFlattenList(Tail(args))

(* The arguments a caller can build: every forest of at most MaxNodes      *)
(* values (leaves and containers counted alike), and the docstring's.      *)

MaxNodes == 4

LeafValues == {PyStr("ab"), PyStr("bc"), PyInt("7")}

RECURSIVE TreesOfSize(_)
RECURSIVE ForestsOfSize(_)

\* the sequences of values with n nodes in all
ForestsOfSize(n) ==
    IF n = 0 THEN {<<>>}
    ELSE UNION {{<<t>> \o f : t \in TreesOfSize(k), f \in ForestsOfSize(n - k)}
                : k \in 1..n}

\* the values with n nodes in all
TreesOfSize(n) ==
    (IF n = 1 THEN LeafValues ELSE {})
        \cup {PyList(f) : f \in ForestsOfSize(n - 1)}
        \cup {PyTuple(f) : f \in ForestsOfSize(n - 1)}

\* args = (["ab", ["bc"], ["ef"]], [[["gh", ], "ij"], "jk"],)
DocExampleArgs ==
    << PyList(<<PyStr("ab"), PyList(<<PyStr("bc")>>), PyList(<<PyStr("ef")>>)>>),
       PyList(<<PyList(<<PyList(<<PyStr("gh")>>), PyStr("ij")>>), PyStr("jk")>>) >>

\* return ['ab', 'bc', 'ef', 'gh', 'ij', 'jk']
DocExampleResult ==
    <<PyStr("ab"), PyStr("bc"), PyStr("ef"), PyStr("gh"), PyStr("ij"), PyStr("jk")>>

FlattenInputs == UNION {ForestsOfSize(n) : n \in 0..MaxNodes} \cup {DocExampleArgs}

-----------------------------------------------------------------------------
(* Initial states                                                          *)

FlattenInit ==
    /\ flArgs \in FlattenInputs
    /\ flResult = <<>>
    /\ flDone = FALSE

FlattenIdle ==
    /\ flArgs = <<>>
    /\ flResult = <<>>
    /\ flDone = FALSE

IntersectInit ==
    /\ ipArgs \in [N : VecsUpTo(MaxCoord), P : PlanePoints,
                    D : VecsUpTo(MaxCoord), L : LinePoints]
    /\ ipResult = VZero
    /\ ipDone = FALSE

IntersectIdle ==
    /\ ipArgs = [N |-> VZero, P |-> VZero, D |-> VZero, L |-> VZero]
    /\ ipResult = VZero
    /\ ipDone = FALSE

\* the most nodes the operations add to the scene in one behaviour
MaxCreated == 1

\* the CVs of the curve in the scene
MaxCVs == 3

\* the first three objects: three planes in general position, and a
\* collinear triple
MainTriples ==
    { <<Vec(0, 0, 0), Vec(2, 0, 0), Vec(0, 2, 0)>>,
      <<Vec(0, 0, 0), Vec(1, 1, 0), Vec(0, 1, 2)>>,
      <<Vec(1, 0, 0), Vec(0, 1, 0), Vec(0, 0, 1)>>,
      <<Vec(0, 0, 0), Vec(1, 1, 1), Vec(2, 2, 2)>> }

SubPoints == {Vec(1, 1, 3), Vec(0, 0, 0), Vec(-1, 2, 1), Vec(2, 2, -1)}

ObjectPositions ==
    {w \in [Objs -> SubPoints \cup UNION {{t[1], t[2], t[3]} : t \in MainTriples}] :
        /\ <<w[1], w[2], w[3]>> \in MainTriples
        /\ \A o \in Objs : o > 3 => w[o] \in SubPoints}

\* no hierarchy, a chain down the selection order, a chain up it
Hierarchies ==
    { [o \in Objs |-> NoParent],
      [o \in Objs |-> o - 1],
      [o \in Objs |-> IF o = MaxObjs THEN NoParent ELSE o + 1] }

\* the translations that put the objects at the world positions w
LocalsFor(parent, w) ==
    [o \in Objs |-> IF parent[o] = NoParent THEN w[o]
                    ELSE VSub(w[o], w[parent[o]])]

ObjPrefix(k) == [j \in 1..k |-> ObjRef(j)]
ObjPrefixes == {ObjPrefix(k) : k \in 0..MaxObjs}

\* the node lists passed as an argument: none (the selection is used), the
\* first 3 objects, or all of them
ObjArguments == {ObjPrefix(k) : k \in {0, 3, MaxObjs}}

CvPoints == {Vec(0, 0, 0), Vec(2, 1, 0), Vec(1, -3, 2), Vec(4, 4, 7)}

\* the selections of CVs of curve 1: none, one, two in either order, or two
\* with CV 2 selected between them
CvSelections ==
    {<<>>}
    \cup {<<CvRef(1, i)>> : i \in 1..MaxCVs}
    \cup {<<CvRef(1, p[1]), CvRef(1, p[2])>> :
              p \in {q \in (1..MaxCVs) \X (1..MaxCVs) : q[1] # q[2]}}
    \cup {<<CvRef(1, p[1]), CvRef(1, 2), CvRef(1, p[2])>> :
              p \in {q \in (1..MaxCVs) \X (1..MaxCVs) :
                         q[1] # q[2] /\ q[1] # 2 /\ q[2] # 2}}

DefaultPositions ==
    [o \in Objs |-> IF o = 1 THEN Vec(0, 0, 0) ELSE IF o = 2 THEN Vec(2, 0, 0)
                    ELSE IF o = 3 THEN Vec(0, 2, 0) ELSE Vec(1, 1, 3)]
DefaultCurve == [i \in 1..MaxCVs |-> Vec(i, 0, 0)]

NoCall(w) == [op |-> "none", sel |-> <<>>, orig |-> w]
NoOutput == [warn |-> "", none |-> TRUE, val |-> <<>>, err |-> ""]

\* a scene of objects under some hierarchy with some of them selected, or a
\* scene with a curve some of whose CVs are selected
SceneInit ==
    /\ scFaces = 0
    /\ scJoints = <<>>
    /\ scOut = NoOutput
    /\ \/ /\ scParent \in Hierarchies
          /\ \E w \in ObjectPositions :
                /\ scLocal = LocalsFor(scParent, w)
                /\ scCall = NoCall(w)
          /\ scSel \in ObjPrefixes
          /\ scCurves = <<DefaultCurve>>
       \/ /\ scParent = [o \in Objs |-> NoParent]
          /\ scLocal = DefaultPositions
          /\ scCall = NoCall(DefaultPositions)
          /\ scSel \in CvSelections
          /\ scCurves \in {<<c>> : c \in [1..MaxCVs -> CvPoints]}

SceneIdle ==
    /\ scFaces = 0
    /\ scJoints = <<>>
    /\ scOut = NoOutput
    /\ scParent = [o \in Objs |-> NoParent]
    /\ scLocal = DefaultPositions
    /\ scCall = NoCall(DefaultPositions)
    /\ scSel = <<>>
    /\ scCurves = <<DefaultCurve>>

\* how often a routine is called on the same arguments
MaxCalls == 2

NoSolutions == [idx |-> 0, variables |-> <<>>, expr |-> <<>>]
RoutineInput(op, a, sol) == [op |-> op, a |-> a, sol |-> sol]
RoutineResult(v, sol) == [v |-> v, sol |-> sol]

RoutineInputs ==
    {RoutineInput("getFaceNormalVector", t, NoSolutions) : t \in MainTriples}
    \cup {RoutineInput("getIntersectionPoint", <<N, P, D, L>>, NoSolutions) :
             N \in SubPoints, P \in PlanePoints, D \in SubPoints, L \in LinePoints}
    \cup {RoutineInput("calculateEquation", <<p, q>>, NoSolutions) :
             p \in CvPoints, q \in CvPoints}
    \cup {RoutineInput("getFinalPosition", <<r>>, calculateEquation(p, q)) :
             r \in CvPoints, p \in CvPoints, q \in CvPoints}

RoutinesInit ==
    /\ rtIn \in RoutineInputs
    /\ rtArgs = rtIn.a
    /\ rtRet = RoutineResult(<<>>, NoSolutions)
    /\ rtSelf = {}
    /\ rtFaces = 0
    /\ rtCalls = 0

RoutinesIdle ==
    /\ rtIn = RoutineInput("none", <<>>, NoSolutions)
    /\ rtArgs = <<>>
    /\ rtRet = RoutineResult(<<>>, NoSolutions)
    /\ rtSelf = {}
    /\ rtFaces = 0
    /\ rtCalls = 0

\* the most arguments createControllers is called with
MaxShapeArgs == 2

RECURSIVE SeqsUpTo(_, _)
\* the sequences over S of length n or less
SeqsUpTo(S, n) ==
    IF n = 0 THEN {<<>>}
    ELSE SeqsUpTo(S, n - 1)
         \cup {Append(q, x) : q \in {r \in SeqsUpTo(S, n - 1) : Len(r) = n - 1}, x \in S}

ControllersInit ==
    /\ ctArgs \in SeqsUpTo(allShapes \cup {"triangle"}, MaxShapeArgs)
    /\ ctCurves \in {<<>>, <<[shape |-> "cube", copy |-> 0]>>}
    /\ ctResult = <<>>
    /\ ctDone = FALSE

ControllersIdle ==
    /\ ctArgs = <<>>
    /\ ctCurves = <<>>
    /\ ctResult = <<>>
    /\ ctDone = FALSE

\* the nodes of the scene a wheel rig is made for
WheelNodes == {"wheelA", "wheelB"}

\* the most items in the argument list and in the selection
MaxItems == 2

WheelItems == {Item(n, b) : n \in WheelNodes, b \in BOOLEAN}
WheelArgs ==
    {PyNone}
    \cup {Arg("str", <<Item(n, FALSE)>>) : n \in WheelNodes}
    \cup {Arg("PyNode", <<Item(n, TRUE)>>) : n \in WheelNodes}
    \cup {Arg("list", q) : q \in SeqsUpTo(WheelItems, MaxItems)}
    \cup {Arg("tuple", q) : q \in SeqsUpTo(WheelItems, MaxItems)}
WheelSelections == SeqsUpTo({Item(n, TRUE) : n \in WheelNodes}, MaxItems)

WheelParamInit ==
    /\ wpArg \in WheelArgs
    /\ wpSel \in WheelSelections
    /\ wpResult = <<>>
    /\ wpDone = FALSE

WheelParamIdle ==
    /\ wpArg = PyNone
    /\ wpSel = <<>>
    /\ wpResult = <<>>
    /\ wpDone = FALSE

\* the most joints the user moves by hand
MaxMoves == 2

\* by how much the user drags a joint
MoveOffsets == {Vec(-80, 10, 20)}

\* the argument of sameBothSide, as split("To") sees it
Sides == {<<"Left", "To", "Right">>, <<"Right", "To", "Left">>}

NoJoints == pmJoints([j \in Jnts |-> VZero])
NoCarCall == [op |-> "", side |-> <<>>, before |-> <<>>, err |-> ""]

\* car = Car(): nothing is in the scene yet
CarInit ==
    /\ carPos = jntNameAndPos
    /\ carDag = NoJoints
    /\ carExists = FALSE
    /\ carCall = NoCarCall
    /\ carMoves = 0

CarIdle == CarInit

\* the most evaluations of the expression
MaxEvals == 3

\* where the user puts the offset group; all distances are whole numbers
OffsetPoints == {Vec(0, 0, 0), Vec(3, 0, 0), Vec(3, 0, 4)}

\* the values orient.rotateY takes under its constraints
Angles == {0, 30, 90, -90}

\* Radius (min 0.0001) and scaleY as the user has set them
Radii == {RInt(1), Rat(1, 2)}
Scales == {RInt(1), RInt(2)}

NoEvaluation == [evals |-> 0, moved |-> FALSE, last |-> "none", at |-> VZero,
                 D |-> RInt(0)]

\* after Wheel.main: AutoRoll dv=1, PrevPos dv=0, the rig at the origin
WheelInit ==
    /\ whCtrl \in [Radius : Radii, AutoRoll : {1}]
    /\ whOffset \in [translate : {VZero}, scaleY : Scales, PrevPos : {VZero}]
    /\ whLoc = RInt(0)
    /\ whPrev = VZero
    /\ whHist = NoEvaluation

WheelIdle ==
    /\ whCtrl = [Radius |-> RInt(1), AutoRoll |-> 1]
    /\ whOffset = [translate |-> VZero, scaleY |-> RInt(1), PrevPos |-> VZero]
    /\ whLoc = RInt(0)
    /\ whPrev = VZero
    /\ whHist = NoEvaluation

-----------------------------------------------------------------------------
(* Operations                                                              *)

\* result = getFlattenList(*args)
CallGetFlattenList ==
    /\ ~flDone
    /\ flResult' = getFlattenList(flArgs)
    /\ flDone' = TRUE
    /\ UNCHANGED flArgs
    /\ UNCHANGED <<ipVars, scVars, rtVars, ctVars, wpVars, carVars, whVars>>

\* X = AlignObjects().getIntersectionPoint(N, P, D, L)
CallGetIntersectionPoint ==
    /\ ~ipDone
    /\ ipResult' = getIntersectionPoint(ipArgs.N, ipArgs.P, ipArgs.D, ipArgs.L)
    /\ ipDone' = TRUE
    /\ UNCHANGED ipArgs
    /\ UNCHANGED <<flVars, scVars, rtVars, ctVars, wpVars, carVars, whVars>>

SceneDag == [parent |-> scParent, local |-> scLocal]
Created == scFaces + Len(scJoints) + (Len(scCurves) - 1)
Warning(text) == [warn |-> text, none |-> TRUE, val |-> <<>>, err |-> ""]
Returned(val) == [warn |-> "", none |-> FALSE, val |-> val, err |-> ""]
Raised(err)   == [warn |-> "", none |-> FALSE, val |-> <<>>, err |-> err]
CallRecord(op, sel) ==
    [op |-> op, sel |-> sel, orig |-> [o \in Objs |-> WorldPosition(SceneDag, o)]]
AllOfKind(sel, kind) == \A k \in 1..Len(sel) : sel[k].k = kind

\* AlignObjects().alignObjects(threeObjects)
AlignObjects(threeObjects) ==
    LET sel == IF threeObjects = <<>> THEN scSel ELSE threeObjects
        reparented == SelectSeq(sel, LAMBDA r : scParent[r.i] # NoParent)
    IN  /\ scCall' = CallRecord("alignObjects", sel)
        /\ IF alignObjectsRejects(sel)
             THEN /\ scOut' = Warning("Select 4 or more objects.")
                  /\ UNCHANGED scNodes
             ELSE /\ AllOfKind(sel, "obj")
                  /\ Created < MaxCreated
                  /\ LET after == alignObjects(SceneDag, [k \in 1..Len(sel) |-> sel[k].i])
                     IN  /\ scParent' = after.parent
                         /\ scLocal' = after.local
                  /\ scFaces' = polyCreateFacet(scFaces)
                  /\ scSel' = IF reparented = <<>> THEN <<MeshRef(scFaces + 1)>>
                              ELSE <<reparented[Len(reparented)]>>
                  /\ scOut' = NoOutput
                  /\ UNCHANGED <<scJoints, scCurves>>
        /\ UNCHANGED <<flVars, ipVars, rtVars, ctVars, wpVars, carVars, whVars>>

\* createPolevectorJoint(joints)
CreatePolevectorJoint(joints) ==
    LET jnt == IF joints = <<>> THEN scSel ELSE joints
        n == Len(scJoints) + 1
    IN  /\ scCall' = CallRecord("createPolevectorJoint", jnt)
        /\ IF createPolevectorJointRejects(jnt)
             THEN /\ scOut' = Warning("Three joints needed.")
                  /\ UNCHANGED scNodes
             ELSE /\ AllOfKind(jnt, "obj")
                  /\ Created < MaxCreated
                  /\ scJoints' = Append(scJoints, createPolevectorJoint(
                         [k \in 1..3 |-> WorldPosition(SceneDag, jnt[k].i)]))
                  /\ scSel' = <<JointRef(2 * n)>>
                  /\ scOut' = Returned(<<JointRef(2 * n - 1), JointRef(2 * n)>>)
                  /\ UNCHANGED <<scParent, scLocal, scFaces, scCurves>>
        /\ UNCHANGED <<flVars, ipVars, rtVars, ctVars, wpVars, carVars, whVars>>

\* if len(originalCurveVertex) < 2: warning, return
alignCurveStraightRejects(originalCurveVertex) == Len(originalCurveVertex) < 2

\* AlignCurvePoints().alignCurveStraight()
AlignCurveStraight ==
    LET originalCurveVertex == scSel IN
        /\ scCall' = CallRecord("alignCurveStraight", originalCurveVertex)
        /\ IF alignCurveStraightRejects(originalCurveVertex)
             THEN /\ scOut' = Warning("2 or more points needed.")
                  /\ UNCHANGED scNodes
             ELSE /\ AllOfKind(originalCurveVertex, "cv")
                  /\ Created < MaxCreated
                  /\ LET firstPoint == originalCurveVertex[1]
                         lastPoint == originalCurveVertex[Len(originalCurveVertex)]
                         original == scCurves[firstPoint.c]
                         moved == alignCurveStraight(original,
                                      scCurves[firstPoint.c][firstPoint.i],
                                      scCurves[lastPoint.c][lastPoint.i])
                         failed == moved[1] = RaisesTypeError
                     IN  /\ scCurves' = Append(scCurves, IF failed THEN original ELSE moved)
                         /\ scOut' = IF failed THEN Raised("TypeError") ELSE NoOutput
                  /\ scSel' = <<CurveRef(Len(scCurves) + 1)>>
                  /\ UNCHANGED <<scParent, scLocal, scFaces, scJoints>>
        /\ UNCHANGED <<flVars, ipVars, rtVars, ctVars, wpVars, carVars, whVars>>

\* AlignObjects().getFaceNormalVector(threePointsPosition)
RoutineGetFaceNormalVector ==
    /\ rtIn.op = "getFaceNormalVector"
    /\ rtCalls < MaxCalls
    /\ rtFaces' = polyCreateFacet(rtFaces)
    /\ rtRet' = RoutineResult(getFaceNormalVector(rtArgs), NoSolutions)
    /\ rtCalls' = rtCalls + 1
    /\ UNCHANGED <<rtIn, rtArgs, rtSelf>>
    /\ UNCHANGED <<flVars, ipVars, scVars, ctVars, wpVars, carVars, whVars>>

\* AlignObjects().getIntersectionPoint(N, P, D, L): the arguments are copied
\* into arrays, the result is a new list
RoutineGetIntersectionPoint ==
    /\ rtIn.op = "getIntersectionPoint"
    /\ rtCalls < MaxCalls
    /\ rtRet' = RoutineResult(
           getIntersectionPoint(rtArgs[1], rtArgs[2], rtArgs[3], rtArgs[4]),
           NoSolutions)
    /\ rtCalls' = rtCalls + 1
    /\ UNCHANGED <<rtIn, rtArgs, rtSelf, rtFaces>>
    /\ UNCHANGED <<flVars, ipVars, scVars, ctVars, wpVars, carVars, whVars>>

\* AlignCurvePoints().calculateEquation(firstPoint, lastPoint): the positions
\* of the two points are read
RoutineCalculateEquation ==
    /\ rtIn.op = "calculateEquation"
    /\ rtCalls < MaxCalls
    /\ rtRet' = RoutineResult(<<>>, calculateEquation(rtArgs[1], rtArgs[2]))
    /\ rtCalls' = rtCalls + 1
    /\ UNCHANGED <<rtIn, rtArgs, rtSelf, rtFaces>>
    /\ UNCHANGED <<flVars, ipVars, scVars, ctVars, wpVars, carVars, whVars>>

\* AlignCurvePoints().getFinalPosition(pointPosition, solutions): the
\* equations are substituted into new ones, the solution is a new dict
RoutineGetFinalPosition ==
    /\ rtIn.op = "getFinalPosition"
    /\ rtCalls < MaxCalls
    /\ rtRet' = RoutineResult(getFinalPosition(rtArgs[1], rtIn.sol), NoSolutions)
    /\ rtCalls' = rtCalls + 1
    /\ UNCHANGED <<rtIn, rtArgs, rtSelf, rtFaces>>
    /\ UNCHANGED <<flVars, ipVars, scVars, ctVars, wpVars, carVars, whVars>>

\* Controllers().createControllers(*args)
CallCreateControllers ==
    /\ ~ctDone
    /\ LET made == createControllers(ctArgs, ctCurves)
       IN  /\ ctCurves' = made.curves
           /\ ctResult' = made.result
    /\ ctDone' = TRUE
    /\ UNCHANGED ctArgs
    /\ UNCHANGED <<flVars, ipVars, scVars, rtVars, wpVars, carVars, whVars>>

\* Wheel.__init__: self.sel = self.checkParam(arg)
CallCheckParam ==
    /\ ~wpDone
    /\ wpResult' = checkParam(wpArg, wpSel)
    /\ wpArg' = IF Truthy(wpArg) /\ wpArg.t = "list"
                  THEN Arg("list", AsPyNodes(wpArg.items))
                  ELSE wpArg
    /\ wpDone' = TRUE
    /\ UNCHANGED wpSel
    /\ UNCHANGED <<flVars, ipVars, scVars, rtVars, ctVars, carVars, whVars>>

CarWorld == [j \in Jnts |-> WorldPosition(carDag, j)]

\* car.createJoints()
CarCreateJoints ==
    /\ carDag' = createJoints(carPos)
    /\ carExists' = TRUE
    /\ carCall' = [NoCarCall EXCEPT !.op = "createJoints"]
    /\ UNCHANGED <<carPos, carMoves>>
    /\ UNCHANGED <<flVars, ipVars, scVars, rtVars, ctVars, wpVars, whVars>>

\* the user moves one joint in the viewport; its children follow
CarMoveJoint(jnt, offset) ==
    /\ carExists
    /\ carMoves < MaxMoves
    /\ carDag' = pmMove(carDag, jnt, VAdd(WorldPosition(carDag, jnt), offset))
    /\ carMoves' = carMoves + 1
    /\ carCall' = [NoCarCall EXCEPT !.op = "move"]
    /\ UNCHANGED <<carPos, carExists>>
    /\ UNCHANGED <<flVars, ipVars, scVars, rtVars, ctVars, wpVars, whVars>>

\* car.sameBothSide(side); pm.xform raises when the joints are not there
CarSameBothSide(side) ==
    /\ IF carExists
         THEN LET done == sameBothSide(carPos, carDag, side)
              IN  /\ carPos' = done.pos
                  /\ carDag' = done.dag
                  /\ carCall' = [op |-> "sameBothSide", side |-> side,
                                 before |-> CarWorld, err |-> ""]
         ELSE /\ carCall' = [op |-> "sameBothSide", side |-> side,
                             before |-> <<>>, err |-> "MayaNodeError"]
              /\ UNCHANGED <<carPos, carDag>>
    /\ UNCHANGED <<carExists, carMoves>>
    /\ UNCHANGED <<flVars, ipVars, scVars, rtVars, ctVars, wpVars, whVars>>

\* the user moves the offset group
WheelMoveOffset(p) ==
    /\ p # whOffset.translate
    /\ whOffset' = [whOffset EXCEPT !.translate = p]
    /\ whHist' = [whHist EXCEPT !.moved = TRUE]
    /\ UNCHANGED <<whCtrl, whLoc, whPrev>>
    /\ UNCHANGED <<flVars, ipVars, scVars, rtVars, ctVars, wpVars, carVars>>

\* the user switches AutoRoll (a long between 0 and 1)
WheelSetAutoRoll(a) ==
    /\ a # whCtrl.AutoRoll
    /\ whCtrl' = [whCtrl EXCEPT !.AutoRoll = a]
    /\ UNCHANGED <<whOffset, whLoc, whPrev, whHist>>
    /\ UNCHANGED <<flVars, ipVars, scVars, rtVars, ctVars, wpVars, carVars>>

\* the host evaluates the expression; O is orient.rotateY at that moment
WheelEvaluate(O) ==
    /\ whHist.evals < MaxEvals
    /\ LET out == createExpression(whCtrl, whOffset, whLoc, O)
       IN  /\ whPrev' = out.prev
           /\ whLoc' = out.loc
           /\ whOffset' = out.offset
           /\ whHist' = [evals |-> whHist.evals + 1,
                         moved |-> FALSE,
                         last |-> IF whHist.moved THEN "moved" ELSE "still",
                         at |-> whOffset.translate,
                         D |-> out.D]
    /\ UNCHANGED whCtrl
    /\ UNCHANGED <<flVars, ipVars, scVars, rtVars, ctVars, wpVars, carVars>>

-----------------------------------------------------------------------------
(* Specifications                                                          *)

InitFlatten == FlattenInit /\ IntersectIdle /\ SceneIdle /\ RoutinesIdle /\ ControllersIdle /\ WheelParamIdle /\ CarIdle /\ WheelIdle
NextFlatten == CallGetFlattenList
SpecFlatten == InitFlatten /\ [][NextFlatten]_vars

InitIntersect == IntersectInit /\ FlattenIdle /\ SceneIdle /\ RoutinesIdle /\ ControllersIdle /\ WheelParamIdle /\ CarIdle /\ WheelIdle
NextIntersect == CallGetIntersectionPoint
SpecIntersect == InitIntersect /\ [][NextIntersect]_vars

InitScene == SceneInit /\ FlattenIdle /\ IntersectIdle /\ RoutinesIdle /\ ControllersIdle /\ WheelParamIdle /\ CarIdle /\ WheelIdle
NextScene ==
    \/ \E threeObjects \in ObjArguments : AlignObjects(threeObjects)
    \/ \E joints \in ObjArguments : CreatePolevectorJoint(joints)
    \/ AlignCurveStraight
SpecScene == InitScene /\ [][NextScene]_vars

InitRoutines == RoutinesInit /\ FlattenIdle /\ IntersectIdle /\ SceneIdle /\ ControllersIdle /\ WheelParamIdle /\ CarIdle /\ WheelIdle
NextRoutines ==
    \/ RoutineGetFaceNormalVector
    \/ RoutineGetIntersectionPoint
    \/ RoutineCalculateEquation
    \/ RoutineGetFinalPosition
SpecRoutines == InitRoutines /\ [][NextRoutines]_vars

InitControllers == ControllersInit /\ FlattenIdle /\ IntersectIdle /\ SceneIdle /\ RoutinesIdle /\ WheelParamIdle /\ CarIdle /\ WheelIdle
NextControllers == CallCreateControllers
SpecControllers == InitControllers /\ [][NextControllers]_vars

InitWheelParam == WheelParamInit /\ FlattenIdle /\ IntersectIdle /\ SceneIdle /\ RoutinesIdle /\ ControllersIdle /\ CarIdle /\ WheelIdle
NextWheelParam == CallCheckParam
SpecWheelParam == InitWheelParam /\ [][NextWheelParam]_vars

InitCar == CarInit /\ FlattenIdle /\ IntersectIdle /\ SceneIdle /\ RoutinesIdle /\ ControllersIdle /\ WheelParamIdle /\ WheelIdle
NextCar ==
    \/ CarCreateJoints
    \/ \E jnt \in Jnts, offset \in MoveOffsets : CarMoveJoint(jnt, offset)
    \/ \E side \in Sides : CarSameBothSide(side)
SpecCar == InitCar /\ [][NextCar]_vars

InitWheel == WheelInit /\ FlattenIdle /\ IntersectIdle /\ SceneIdle /\ RoutinesIdle /\ ControllersIdle /\ WheelParamIdle /\ CarIdle
NextWheel ==
    \/ \E p \in OffsetPoints : WheelMoveOffset(p)
    \/ \E a \in {0, 1} : WheelSetAutoRoll(a)
    \/ \E O \in Angles : WheelEvaluate(O)
SpecWheel == InitWheel /\ [][NextWheel]_vars

-----------------------------------------------------------------------------
(* Properties                                                              *)

(* C2: with dot(N, D) # 0 the result X is on the plane, dot(N, X - P) = 0, *)
(* is the point L + t*D of the line for t = dot(N, P - L) / dot(N, D), and *)
(* is the only point of the line on the plane.                             *)

\* line parameters tried for the uniqueness: the halves from -4 to 4
LineParams == {Rat(k, 2) : k \in -8..8}

IntersectionOnPlaneAndLine ==
    (ipDone /\ Dot(ipArgs.N, ipArgs.D) # RZero) =>
        LET t == RDiv(Dot(ipArgs.N, VSub(ipArgs.P, ipArgs.L)),
                      Dot(ipArgs.N, ipArgs.D))
        IN  /\ ipResult # NonFinite
            /\ Dot(ipArgs.N, VSub(ipResult, ipArgs.P)) = RZero
            /\ ipResult = VAdd(ipArgs.L, VScale(t, ipArgs.D))
            /\ \A s \in LineParams :
                   LET Y == VAdd(ipArgs.L, VScale(s, ipArgs.D))
                   IN  Dot(ipArgs.N, VSub(Y, ipArgs.P)) = RZero => Y = ipResult

\* a line that is not perpendicular to the plane and starts off the plane
IntersectWitness ==
    /\ ipDone
    /\ Dot(ipArgs.N, ipArgs.D) # RZero
    /\ Cross(ipArgs.N, ipArgs.D) # VZero
    /\ Dot(ipArgs.N, VSub(ipArgs.P, ipArgs.L)) # RZero
    /\ ipResult # ipArgs.L

(* C5: getFlattenList returns the leaves of its arguments, depth first and *)
(* left to right, each str whole, and no list or tuple is left in it.      *)

RECURSIVE LeafPaths(_)
\* the index paths that lead to the values that are no list or tuple
LeafPaths(forest) ==
    UNION {IF forest[i].t \in {"list", "tuple"}
             THEN {<<i>> \o q : q \in LeafPaths(forest[i].items)}
             ELSE {<<i>>}
           : i \in 1..Len(forest)}

RECURSIVE NodeAt(_, _)
NodeAt(forest, path) ==
    IF Len(path) = 1 THEN forest[path[1]]
    ELSE NodeAt(forest[path[1]].items, Tail(path))

\* p comes before q reading left to right
PathBefore(p, q) ==
    \E k \in 1..Len(p) :
        /\ k <= Len(q)
        /\ p[k] < q[k]
        /\ \A j \in 1..(k - 1) : p[j] = q[j]

PathRank(forest, p) ==
    1 + Cardinality({q \in LeafPaths(forest) : PathBefore(q, p)})

FlattenIsLeavesInOrder ==
    flDone =>
        /\ \A i \in 1..Len(flResult) : flResult[i].t \notin {"list", "tuple"}
        /\ Len(flResult) = Cardinality(LeafPaths(flArgs))
        /\ \A p \in LeafPaths(flArgs) :
               flResult[PathRank(flArgs, p)] = NodeAt(flArgs, p)
        /\ (flArgs = DocExampleArgs => flResult = DocExampleResult)

\* a str nested two containers deep, after another leaf, has been flattened
FlattenWitness ==
    /\ flDone
    /\ Len(flResult) >= 2
    /\ \E p \in LeafPaths(flArgs) :
           /\ Len(p) = 3
           /\ NodeAt(flArgs, p).t = "str"
           /\ PathRank(flArgs, p) = 2

(* The result of getIntersectionPoint with the normal as plane normal and  *)
(* as direction does not depend on the length of the normal.               *)
ScaleOfNormalIsIrrelevant ==
    \A k \in {-1, 2, 3} :
        LET kN == VScale(RInt(k), ipArgs.N)
        IN  getIntersectionPoint(kN, ipArgs.P, kN, ipArgs.L)
                = getIntersectionPoint(ipArgs.N, ipArgs.P, ipArgs.N, ipArgs.L)

Finite(v) == \A i \in 1..3 : v[i] # RNaN

Det3(u, v, w) == Dot(u, Cross(v, w))

\* alignObjects has just run past its guard on objects whose first three
\* were not collinear
AlignObjectsRan ==
    /\ scCall.op = "alignObjects"
    /\ Len(scCall.sel) >= 4
    /\ AllOfKind(scCall.sel, "obj")
    /\ \A k \in 1..Len(scCall.sel) : Finite(scCall.orig[scCall.sel[k].i])
    /\ Cross(VSub(scCall.orig[scCall.sel[2].i], scCall.orig[scCall.sel[1].i]),
             VSub(scCall.orig[scCall.sel[3].i], scCall.orig[scCall.sel[1].i])) # VZero

(* C1: after alignObjects on 4 or more objects whose first three are not   *)
(* collinear, every object after the third is on the plane through the    *)
(* first three objects' world positions, and its displacement from its     *)
(* original world position is perpendicular to that plane.                 *)
AlignObjectsProjectsOntoPlane ==
    AlignObjectsRan =>
        LET P(k) == WorldPosition(SceneDag, scCall.sel[k].i)
            e1 == VSub(P(2), P(1))
            e2 == VSub(P(3), P(1))
        IN  \A k \in 4..Len(scCall.sel) :
                LET X == P(k)
                    L == scCall.orig[scCall.sel[k].i]
                IN  /\ Det3(VSub(X, P(1)), e1, e2) = RZero
                    /\ Dot(VSub(X, L), e1) = RZero
                    /\ Dot(VSub(X, L), e2) = RZero

\* an object that was off the plane, in a hierarchy, has been moved onto it
AlignObjectsWitness ==
    /\ AlignObjectsRan
    /\ \E o \in Objs : scParent[o] # NoParent
    /\ \E k \in 4..Len(scCall.sel) :
           WorldPosition(SceneDag, scCall.sel[k].i) # scCall.orig[scCall.sel[k].i]

\* r is within half a unit, in every coordinate, of a point p1 + t*d
NearLine(r, p1, d) ==
    LET lo(i) == IF d[i].n > 0
                   THEN RDiv(RSub(RSub(r[i], p1[i]), Rat(1, 2)), d[i])
                   ELSE RDiv(RAdd(RSub(r[i], p1[i]), Rat(1, 2)), d[i])
        hi(i) == IF d[i].n > 0
                   THEN RDiv(RAdd(RSub(r[i], p1[i]), Rat(1, 2)), d[i])
                   ELSE RDiv(RSub(RSub(r[i], p1[i]), Rat(1, 2)), d[i])
    IN  /\ \A i \in 1..3 : d[i] = RZero => r[i] = p1[i]
        /\ \A i, j \in 1..3 : (d[i] # RZero /\ d[j] # RZero) => RLeq(lo(i), hi(j))

\* alignCurveStraight has just run past its guard on CVs whose first and
\* last are at different places
AlignCurveStraightRan ==
    /\ scCall.op = "alignCurveStraight"
    /\ Len(scCall.sel) >= 2
    /\ AllOfKind(scCall.sel, "cv")
    /\ scCurves[1][scCall.sel[1].i] # scCurves[1][scCall.sel[Len(scCall.sel)].i]

(* C3: after alignCurveStraight on 2 or more points whose first and last   *)
(* are distinct, every CV of the copied curve is, up to the rounding to 4  *)
(* decimals, on the line through the first and the last selected point.    *)
CopiedCurveIsStraight ==
    AlignCurveStraightRan =>
        LET p1 == scCurves[1][scCall.sel[1].i]
            p2 == scCurves[1][scCall.sel[Len(scCall.sel)].i]
            copiedCurve == scCurves[Len(scCurves)]
        IN  /\ Len(scCurves) = 2
            /\ Len(copiedCurve) = Len(scCurves[1])
            /\ scOut = NoOutput
            /\ \A i \in 1..Len(copiedCurve) :
                   NearLine(copiedCurve[i], p1, VSub(p2, p1))

\* a CV that was off the line has been moved, and one landed between units
CopiedCurveWitness ==
    /\ AlignCurveStraightRan
    /\ \E i \in 1..MaxCVs :
           /\ scCurves[2][i] # scCurves[1][i]
           /\ ~NearLine(scCurves[1][i], scCurves[1][scCall.sel[1].i],
                        VSub(scCurves[1][scCall.sel[Len(scCall.sel)].i],
                             scCurves[1][scCall.sel[1].i]))

(* C8: a call with the wrong number of items warns, returns None and       *)
(* leaves the scene as it was: alignObjects below 4 objects, create-       *)
(* PolevectorJoint off 3 joints, alignCurveStraight below 2 points.        *)
WrongCountStep ==
    /\ (scCall'.op = "alignObjects" /\ Len(scCall'.sel) < 4) =>
           (UNCHANGED scNodes /\ scOut' = Warning("Select 4 or more objects."))
    /\ (scCall'.op = "createPolevectorJoint" /\ Len(scCall'.sel) # 3) =>
           (UNCHANGED scNodes /\ scOut' = Warning("Three joints needed."))
    /\ (scCall'.op = "alignCurveStraight" /\ Len(scCall'.sel) < 2) =>
           (UNCHANGED scNodes /\ scOut' = Warning("2 or more points needed."))

RoutineKeepsArguments ==
    /\ rtArgs' = rtArgs
    /\ rtIn' = rtIn
    /\ rtSelf' = rtSelf
    /\ rtCalls > 0 => rtRet' = rtRet

(* C4 as stated: the four routines change no argument, keep nothing, give  *)
(* the same result for the same arguments and change no node of the scene. *)
RoutinesAreStateless ==
    [][RoutineKeepsArguments /\ rtFaces' = rtFaces]_vars

(* C4, amended: as above, but every call of getFaceNormalVector adds one   *)
(* polygon face to the scene; the other three routines add none.           *)
RoutinesStatelessButForTheFace ==
    [][/\ RoutineKeepsArguments
       /\ rtFaces' = IF rtIn.op = "getFaceNormalVector" THEN rtFaces + 1
                     ELSE rtFaces]_vars

\* getFaceNormalVector has been called twice on the same three points
RoutinesWitness ==
    /\ rtIn.op = "getFaceNormalVector"
    /\ rtCalls = 2
    /\ rtFaces = 2
    /\ rtRet.v # VZero

(* C6: createControllers called with no arguments creates one curve for   *)
(* each of the 26 shapes of controllerShapes and returns their names.      *)
NoArgumentsCreatesAllControllers ==
    (ctDone /\ ctArgs = <<>>) =>
        /\ Len(ctResult) = 26
        /\ {ctResult[i].shape : i \in 1..Len(ctResult)} = allShapes

(* C9: whenever an argument is passed, checkParam returns the argument's   *)
(* objects, each as a PyNode; the selection is returned only when no       *)
(* argument is passed.                                                     *)
ArgumentBecomesPyNodes ==
    (wpDone /\ wpArg.t # "None") => wpResult = AsPyNodes(wpArg.items)

\* the name with the word `from` written as `to`
Renamed(jntName, from, to) ==
    [k \in 1..Len(jntName) |-> IF jntName[k] = from THEN to ELSE jntName[k]]

SameBothSideRan == carCall.op = "sameBothSide" /\ carCall.err = ""

WheelEvaluated == whHist'.evals = whHist.evals + 1

====
